---- MODULE Spec2Model ----
(***************************************************************************)
(* A model of LineClamp (src/src/LineClamp.js): a controller bound to one  *)
(* DOM element that reduces the element's font size (soft clamp) or trims  *)
(* its text (hard clamp) until the text fits within maxLines lines, and    *)
(* that can watch the element (MutationObserver + window resize listener)  *)
(* to clamp again on every change.                                         *)
(*                                                                         *)
(* JavaScript is single threaded: a public call or an event handler runs   *)
(* to completion before anything else happens.  A clamp() pass is modelled *)
(* as a sequence of steps (one per loop iteration) during which no other   *)
(* action is enabled; every other call is one action.                      *)
(*                                                                         *)
(* Text is a sequence of one-character strings.  "hellip" is the character *)
(* written by '&hellip;', "nbsp" and "br" are the two pieces of the        *)
(* calibration fragment of textDimensions.                                 *)
(***************************************************************************)
EXTENDS Integers, Sequences, FiniteSets, TLC

\* ------------------------------------------------------------------ bounds

\* Longest construction-time text, in characters.
MaxLen == 5
\* Largest font size (px) of the style sheet and of the configuration.
MaxFont == 3

\* Characters of the construction-time text: a letter and a whitespace.
Chars == {"a", " "}
\* Container widths (px) the host may give the element.
Widths == {2, 4}
\* Inline min-height values (px) the element may carry; 0 is "not set".
MinHeights == {0, 4}
\* Line budgets.
LineBudgets == {1, 2}
\* Inline font sizes (px) the element may carry at construction; 0 is "none".
InlineFontSizes == {0, 2}
\* Texts another agent may write into the element after construction.
ExternalTexts == { <<"b", "b", " ", "b">> }

Max(a, b) == IF a >= b THEN a ELSE b

RECURSIVE SeqsOfLen(_)
SeqsOfLen(n) ==
  IF n = 0 THEN { <<>> }
  ELSE { Append(s, c) : s \in SeqsOfLen(n - 1), c \in Chars }

\* The construction-time texts: the empty text, every text of at most MaxLen
\* characters made of words separated by one whitespace, and one text with a
\* leading whitespace (which split() turns into an empty first word).
Texts ==
  { s \in UNION { SeqsOfLen(n) : n \in 0..MaxLen } :
      /\ Len(s) > 0 => s[1] # " " /\ s[Len(s)] # " "
      /\ \A k \in 1..(Len(s) - 1) : ~(s[k] = " " /\ s[k + 1] = " ") }
  \cup { <<" ", "a">> }

\* ------------------------------------------------------- string primitives

IsSpace(c) == c = " "

\* String.prototype.split(/\s+/): the pieces between maximal whitespace runs;
\* a leading or trailing run yields an empty piece, "" yields one empty piece.
RECURSIVE SplitFrom(_, _, _, _)
SplitFrom(s, k, cur, acc) ==
  IF k > Len(s) THEN Append(acc, cur)
  ELSE IF IsSpace(s[k])
       THEN IF k > 1 /\ IsSpace(s[k - 1])
            THEN SplitFrom(s, k + 1, cur, acc)
            ELSE SplitFrom(s, k + 1, <<>>, Append(acc, cur))
       ELSE SplitFrom(s, k + 1, Append(cur, s[k]), acc)

Split(s) == SplitFrom(s, 1, <<>>, <<>>)

\* Array.prototype.join(' ')
RECURSIVE Join(_)
Join(ws) ==
  IF Len(ws) = 0 THEN <<>>
  ELSE IF Len(ws) = 1 THEN ws[1]
  ELSE ws[1] \o <<" ">> \o Join(Tail(ws))

\* Array.prototype.slice(0, i)
Slice(ws, i) == SubSeq(ws, 1, i)

\* String.prototype.slice(0, -1): drops the last character; "" stays "".
DropLast(s) == IF Len(s) = 0 THEN <<>> ELSE SubSeq(s, 1, Len(s) - 1)

\* currentText + '&hellip;'
WithEllipsis(s) == Append(s, "hellip")

\* '&nbsp;' + '<br>'.repeat(maxLines)
RECURSIVE Repeat(_, _)
Repeat(c, n) == IF n = 0 THEN <<>> ELSE <<c>> \o Repeat(c, n - 1)

CalibrationHtml(maxLines) == <<"nbsp">> \o Repeat("br", maxLines)

IsPrefix(p, s) == Len(p) <= Len(s) /\ SubSeq(s, 1, Len(p)) = p

\* ------------------------------------------------- the host's rendering

\* Lines a sequence of words occupies when each line holds cpl characters:
\* greedy wrapping, a word longer than a line is broken (word-break).
\* lines is the number of lines begun, col the characters on the last one.
RECURSIVE WrapWords(_, _, _, _)
WrapWords(ws, cpl, lines, col) ==
  IF Len(ws) = 0 THEN lines
  ELSE LET w == Len(ws[1]) IN
    IF w = 0 THEN WrapWords(Tail(ws), cpl, lines, col)
    ELSE IF lines > 0 /\ col + 1 + w <= cpl
         THEN WrapWords(Tail(ws), cpl, lines, col + 1 + w)
    ELSE IF w <= cpl
         THEN WrapWords(Tail(ws), cpl, lines + 1, w)
    ELSE WrapWords(Tail(ws), cpl,
                   lines + ((w + cpl - 1) \div cpl),
                   IF w % cpl = 0 THEN cpl ELSE w % cpl)

FirstBreak(s) ==
  IF \E k \in 1..Len(s) : s[k] = "br"
  THEN CHOOSE k \in 1..Len(s) : s[k] = "br" /\ \A j \in 1..(k - 1) : s[j] # "br"
  ELSE 0

\* Lines the content occupies: a forced break ends a line, and a break at
\* the very end of the content opens no further line.
RECURSIVE NumLines(_, _)
NumLines(s, cpl) ==
  LET k == FirstBreak(s) IN
    IF k = 0 THEN WrapWords(Split(s), cpl, 0, 0)
    ELSE Max(1, WrapWords(Split(SubSeq(s, 1, k - 1)), cpl, 0, 0))
         + NumLines(SubSeq(s, k + 1, Len(s)), cpl)

\* ------------------------------------------------------------------ state

VARIABLES
  cfg,      \* the controller's configuration and snapshot, set by the constructor
  st,       \* the element's content and inline style, the controller's
            \* _watching flag, its two subscriptions and the observer's queue
  env,      \* what the host decides: container width, style-sheet font size,
            \* whether the element is rendered at all
  pc,       \* "idle", or the position of the clamp() pass in progress
  loc,      \* the locals of the pass in progress
  signals,  \* the events dispatched on the element by the pass in progress
  pre       \* the element and subscriptions as the pass in progress found them

vars == <<cfg, st, env, pc, loc, signals, pre>>

\* Font size in effect: the inline one, else the style sheet's.
\* (window.getComputedStyle(element).fontSize)
computedFontSize(s, e) == IF s.fontSize = 0 THEN e.cssFontSize ELSE s.fontSize

\* element.offsetHeight.  A line is as high as the font size; an element that
\* is not rendered has no height; min-height is a floor.
offsetHeight(s, e) ==
  IF ~e.shown THEN 0
  ELSE LET font == computedFontSize(s, e)
           cpl  == Max(1, e.width \div font)
       IN Max(s.minHeight, NumLines(s.text, cpl) * font)

\* A write to the element's content (textContent = / innerHTML =) or to its
\* style attribute by who ("self": the controller, "external": another agent).
\* An observing MutationObserver queues a record for it; observedWrite keeps
\* that a write of the controller itself was ever observed.
Record(s, who) == IF s.observing THEN s.records \cup {who} ELSE s.records

Observed(s, who) == s.observedWrite \/ (s.observing /\ who = "self")

SetContent(s, t, who) ==
  [s EXCEPT !.text = t, !.records = Record(s, who),
            !.observedWrite = Observed(s, who)]

SetStyle(s, css, who) ==
  [s EXCEPT !.fontSize = css.fontSize, !.minHeight = css.minHeight,
            !.records = Record(s, who), !.observedWrite = Observed(s, who)]

\* element.style.cssText, read.
cssText(s) == [fontSize |-> s.fontSize, minHeight |-> s.minHeight]

\* ----------------------------------------------------- watch and unwatch

\* unwatch() without the removeEventListener call: the resize listener stays.
unwatchKeepsListener(s) ==
  [s EXCEPT !.observing = FALSE, !.records = {}, !.watching = FALSE]

\* unwatch(): observer.disconnect() (which also empties the observer's record
\* queue), removeEventListener, _watching = false.
unwatch(s) ==
  [s EXCEPT !.observing = FALSE, !.records = {}, !.resize = 0, !.watching = FALSE]

\* addEventListener('resize', updateHandler): the same listener is not added twice.
addEventListener(n) == IF n = 0 THEN 1 ELSE n

\* watch() without the _watching guard and with a fresh handler closure per
\* call, so that each call adds one more resize listener.
subscribeAgain(s) ==
  [s EXCEPT !.resize = s.resize + 1, !.observing = TRUE, !.watching = TRUE]

\* The subscribing half of watch(): lines 129-142.
subscribe(s) ==
  IF ~s.watching
  THEN [s EXCEPT !.resize = addEventListener(s.resize),
                 !.observing = TRUE, !.watching = TRUE]
  ELSE s

\* watch(doInitialClamp) as called from inside a pass or a measurement, where
\* a clamp() call would re-enter the pass: the re-entry is recorded.
watch(s, doInitialClamp) ==
  subscribe(IF doInitialClamp THEN [s EXCEPT !.reentered = TRUE] ELSE s)

\* ---------------------------------------------------------- measurement

stylesToZeroOut ==
  <<"min-height", "border-top-width", "border-bottom-width",
    "padding-top-width", "padding-bottom-width">>

\* What `';' + stylesToZeroOut` appends to cssText: the array is coerced to
\* its comma-joined names, one declaration with no ':' and no value.
appendedCss == << [prop |-> stylesToZeroOut, hasValue |-> FALSE, value |-> 0] >>

\* The CSS parser applied to declarations appended to a style text: a
\* declaration without a value is dropped, a min-height declaration is applied.
RECURSIVE ApplyDecls(_, _)
ApplyDecls(css, decls) ==
  IF Len(decls) = 0 THEN css
  ELSE LET d == decls[1] IN
    ApplyDecls(IF d.hasValue /\ d.prop = "min-height"
               THEN [css EXCEPT !.minHeight = d.value]
               ELSE css,
               Tail(decls))

\* The measurement without `element.innerHTML = originalHtml` (line 110): the
\* calibration fragment stays in the element.
_whileMeasuringLeavesCalibration(s, e, c) ==
  LET previouslyWatching == s.watching
      oldStyles    == cssText(s)
      s1           == unwatch(s)
      s2           == SetStyle(s1, ApplyDecls(oldStyles, appendedCss), "self")
      innerHeight  == offsetHeight(s2, e)
      s3           == SetContent(s2, CalibrationHtml(c.maxLines), "self")
      calHeight    == offsetHeight(s3, e)
      s5           == SetStyle(s3, oldStyles, "self")
      s6           == IF previouslyWatching THEN watch(s5, FALSE) ELSE s5
  IN [st |-> s6,
      innerHeight |-> innerHeight,
      lineHeight  |-> [num |-> calHeight, den |-> c.maxLines]]

\* _whileMeasuring(callback) with the callback of textDimensions.
\* Returns the state it leaves and the two heights it read.
_whileMeasuring(s, e, c) ==
  LET previouslyWatching == s.watching
      oldStyles    == cssText(s)
      s1           == unwatch(s)
      s2           == SetStyle(s1, ApplyDecls(oldStyles, appendedCss), "self")
      originalHtml == s2.text
      innerHeight  == offsetHeight(s2, e)
      s3           == SetContent(s2, CalibrationHtml(c.maxLines), "self")
      calHeight    == offsetHeight(s3, e)
      s4           == SetContent(s3, originalHtml, "self")
      s5           == SetStyle(s4, oldStyles, "self")
      s6           == IF previouslyWatching THEN watch(s5, FALSE) ELSE s5
  IN [st |-> s6,
      innerHeight |-> innerHeight,
      \* offsetHeight / maxLines, kept as a fraction
      lineHeight  |-> [num |-> calHeight, den |-> c.maxLines]]

textDimensions(s, e, c) == _whileMeasuring(s, e, c)

\* innerHeight / comparisonLineHeight > maxLines, in JavaScript numbers:
\* x / 0 is Infinity for x > 0 and NaN (never greater) for x = 0.
Exceeds(innerHeight, lh, maxLines) ==
  IF lh.num = 0 THEN innerHeight > 0
  ELSE innerHeight * lh.den > maxLines * lh.num

\* shouldClamp(): the state the measurement leaves, and the answer.
shouldClamp(s, e, c) ==
  LET d == textDimensions(s, e, c)
      comparisonLineHeight == IF c.strict THEN d.lineHeight ELSE c.basisLineHeight
  IN [st |-> d.st, value |-> Exceeds(d.innerHeight, comparisonLineHeight, c.maxLines)]

\* ------------------------------------------------------------ constructor

\* An option the caller did not supply (its default is undefined).
Undefined == 0

\* new LineClamp(element, options) on element state s.
Construct(s, e, maxLines, useSoftClamp, strict, basisOpt, minFontSize, maxOpt) ==
  LET c0 == [originalWords |-> Split(s.text), maxLines |-> maxLines]
  IN [originalWords   |-> c0.originalWords,
      maxLines        |-> maxLines,
      useSoftClamp    |-> useSoftClamp,
      strict          |-> strict,
      basisLineHeight |-> IF basisOpt = Undefined
                          THEN textDimensions(s, e, c0).lineHeight
                          ELSE [num |-> basisOpt, den |-> 1],
      minFontSize     |-> minFontSize,
      maxFontSize     |-> IF maxOpt = Undefined
                          THEN computedFontSize(s, e)
                          ELSE maxOpt]

\* The element as the constructor leaves it: measured once (currentLineHeight,
\* lines 77-79) when basisLineHeight is not supplied.
ConstructedElement(s, e, maxLines, basisOpt) ==
  IF basisOpt = Undefined
  THEN textDimensions(s, e, [originalWords |-> Split(s.text),
                             maxLines |-> maxLines]).st
  ELSE s

Snapshot(s) ==
  [text |-> s.text, fontSize |-> s.fontSize, minHeight |-> s.minHeight,
   watching |-> s.watching, observing |-> s.observing, resize |-> s.resize]

\* previouslyWatching, the loop index, currentText and done of the pass; who
\* called clamp(); whether the pass invoked hardClamp() and whether the guard
\* of hardClamp() was true.
NoLocals == [prev |-> FALSE, i |-> 0, currentText |-> <<>>, done |-> FALSE,
             caller |-> "none", hard |-> FALSE, trunc |-> FALSE]

Init ==
  \E text \in Texts, minHeight \in MinHeights, width \in Widths,
     cssFontSize \in 1..MaxFont, shown \in BOOLEAN,
     maxLines \in LineBudgets, useSoftClamp \in BOOLEAN, strict \in BOOLEAN,
     basisOpt \in {Undefined, 1}, minFontSize \in {1, MaxFont},
     maxOpt \in {Undefined} \cup (1..MaxFont),
     inlineFontSize \in InlineFontSizes :
    LET s0 == [text |-> text, fontSize |-> inlineFontSize, minHeight |-> minHeight,
               watching |-> FALSE, observing |-> FALSE, resize |-> 0,
               records |-> {}, reentered |-> FALSE, observedWrite |-> FALSE]
        e0 == [width |-> width, cssFontSize |-> cssFontSize, shown |-> shown]
    IN \* basisLineHeight is read in non-strict mode only, and whether the
       \* element was rendered at construction matters to nothing else
       /\ strict => basisOpt = Undefined
       /\ ~shown => ~strict /\ basisOpt = Undefined
       \* an inline font size at construction is explored for hard clamp,
       \* which never reads minFontSize or maxFontSize
       /\ inlineFontSize # 0 =>
            ~useSoftClamp /\ minFontSize = 1 /\ maxOpt = Undefined
       /\ st = ConstructedElement(s0, e0, maxLines, basisOpt)
       /\ env = e0
       /\ cfg = Construct(s0, e0, maxLines, useSoftClamp, strict, basisOpt,
                          minFontSize, maxOpt)
       /\ pc = "idle"
       /\ loc = NoLocals
       /\ signals = <<>>
       /\ pre = Snapshot(st)

\* ---------------------------------------------------------------- clamp()

Idle == pc = "idle"

\* clamp() without its unwatch() call: the pass runs with the subscriptions
\* in place.
BeginClampStillWatching(s, e, caller) ==
  /\ signals' = <<>>
  /\ IF offsetHeight(s, e) = 0
     THEN /\ st' = IF caller = "watch" THEN subscribe(s) ELSE s
          /\ pc' = "idle"
          /\ loc' = NoLocals
          /\ pre' = Snapshot(st')
     ELSE /\ st' = s
          /\ pre' = Snapshot(s)
          /\ pc' = IF cfg.useSoftClamp THEN "softClamp" ELSE "hardClamp"
          /\ loc' = [NoLocals EXCEPT !.prev = s.watching, !.caller = caller]

\* clamp() that measures (shouldClamp()) before its height check.
BeginClampMeasuresFirst(s, e, caller) ==
  /\ signals' = <<>>
  /\ IF offsetHeight(s, e) = 0
     THEN /\ st' = IF caller = "watch" THEN subscribe(shouldClamp(s, e, cfg).st)
                                       ELSE shouldClamp(s, e, cfg).st
          /\ pc' = "idle"
          /\ loc' = NoLocals
          /\ pre' = Snapshot(st')
     ELSE /\ st' = unwatch(s)
          /\ pre' = Snapshot(s)
          /\ pc' = IF cfg.useSoftClamp THEN "softClamp" ELSE "hardClamp"
          /\ loc' = [NoLocals EXCEPT !.prev = s.watching, !.caller = caller]

\* clamp(), lines 159-171, on element state s: the zero-height exit, or
\* unwatch() and the dispatch on useSoftClamp.  caller is "clamp" (a direct
\* call, or updateHandler) or "watch" (watch(true), which subscribes after).
BeginClamp(s, e, caller) ==
  /\ signals' = <<>>
  /\ IF offsetHeight(s, e) = 0
     THEN /\ st' = IF caller = "watch" THEN subscribe(s) ELSE s
          /\ pc' = "idle"
          /\ loc' = NoLocals
          /\ pre' = Snapshot(st')
     ELSE /\ st' = unwatch(s)
          /\ pre' = Snapshot(s)
          /\ pc' = IF cfg.useSoftClamp THEN "softClamp" ELSE "hardClamp"
          /\ loc' = [NoLocals EXCEPT !.prev = s.watching, !.caller = caller]

\* softClamp() without the test of line 219: the search always runs.
SoftClampStartNoTest ==
  /\ pc = "softClamp"
  /\ LET s1 == SetStyle(st, [cssText(st) EXCEPT !.fontSize = 0], "self")
         r  == shouldClamp(s1, env, cfg)
     IN /\ st' = r.st
        /\ pc' = "softLoop"
        /\ loc' = [loc EXCEPT !.i = cfg.maxFontSize]
  /\ UNCHANGED <<cfg, env, signals, pre>>

\* softClamp(), lines 217-219: reset the inline font size, then test.
SoftClampStart ==
  /\ pc = "softClamp"
  /\ LET s1 == SetStyle(st, [cssText(st) EXCEPT !.fontSize = 0], "self")
         r  == shouldClamp(s1, env, cfg)
     IN /\ st' = r.st
        /\ IF r.value
           THEN pc' = "softLoop" /\ loc' = [loc EXCEPT !.i = cfg.maxFontSize]
           ELSE pc' = "rewatch" /\ loc' = loc
  /\ UNCHANGED <<cfg, env, signals, pre>>

\* The body of softClamp()'s search, with the loop condition and the events
\* of a failed search as parameters.
SoftClampLoopWith(goesOn, failedEvents) ==
  /\ pc = "softLoop"
  /\ IF goesOn
     THEN LET s1 == SetStyle(st, [cssText(st) EXCEPT !.fontSize = loc.i], "self")
              r  == shouldClamp(s1, env, cfg)
          IN /\ st' = r.st
             /\ IF ~r.value
                THEN /\ signals' = signals \o <<"lineclamp.softClamp", "lineclamp.clamp">>
                     /\ pc' = "rewatch"
                     /\ loc' = [loc EXCEPT !.done = TRUE]
                ELSE /\ signals' = signals
                     /\ pc' = "softLoop"
                     /\ loc' = [loc EXCEPT !.i = loc.i - 1]
     ELSE /\ st' = st
          /\ signals' = signals \o failedEvents
          /\ pc' = "hardClamp"
          /\ loc' = loc
  /\ UNCHANGED <<cfg, env, pre>>

\* softClamp() with a search that ignores minFontSize and goes down to 1px.
SoftClampLoopBelowMin ==
  SoftClampLoopWith(loc.i >= 1, <<"lineclamp.softClamp">>)

\* softClamp() that dispatches lineclamp.clamp after a failed search as well.
SoftClampLoopAlwaysCompletes ==
  SoftClampLoopWith(loc.i >= cfg.minFontSize,
                    <<"lineclamp.softClamp", "lineclamp.clamp">>)

\* softClamp() that dispatches nothing after a failed search.
SoftClampLoopSilentFailure ==
  SoftClampLoopWith(loc.i >= cfg.minFontSize, <<>>)

\* softClamp() whose search tries maxFontSize before looking at minFontSize
\* (a do-while).
SoftClampLoopAtLeastOnce ==
  SoftClampLoopWith(loc.i >= cfg.minFontSize \/ loc.i = cfg.maxFontSize,
                    <<"lineclamp.softClamp">>)

\* softClamp(), lines 222-238: one iteration of the font-size search, or the
\* end of the search.
SoftClampLoop ==
  SoftClampLoopWith(loc.i >= cfg.minFontSize, <<"lineclamp.softClamp">>)

HardClampEvents == <<"lineclamp.hardClamp", "lineclamp.clamp">>

\* hardClamp(), line 186: the guard.
HardClampStart ==
  /\ pc = "hardClamp"
  /\ LET r == shouldClamp(st, env, cfg)
     IN /\ st' = r.st
        /\ IF r.value
           THEN pc' = "hardWords" /\ loc' = [loc EXCEPT !.i = 0, !.hard = TRUE, !.trunc = TRUE]
           ELSE pc' = "hardEnd" /\ loc' = [loc EXCEPT !.hard = TRUE]
  /\ UNCHANGED <<cfg, env, signals, pre>>

\* The body of hardClamp()'s word loop over the word sequence words.
HardClampWordsOf(words) ==
  /\ pc = "hardWords"
  /\ LET currentText == Join(Slice(words, loc.i))
         s1 == SetContent(st, currentText, "self")
         r  == shouldClamp(s1, env, cfg)
     IN /\ st' = r.st
        /\ IF r.value
           THEN /\ pc' = "hardTrim"
                /\ loc' = [loc EXCEPT !.currentText = currentText]
                /\ signals' = signals
           ELSE IF loc.i + 1 < Len(words)
           THEN /\ pc' = "hardWords"
                /\ loc' = [loc EXCEPT !.i = loc.i + 1]
                /\ signals' = signals
           ELSE /\ pc' = "hardEnd"
                /\ loc' = loc
                /\ signals' = signals \o HardClampEvents
  /\ UNCHANGED <<cfg, env, pre>>

\* hardClamp() rebuilding the text from the words the element held when the
\* pass began instead of from originalWords.
HardClampWordsFromContent == HardClampWordsOf(Split(pre.text))

\* hardClamp(), lines 187-192 and 203-204: one iteration of the word loop;
\* after the last one, the two events.
HardClampWords == HardClampWordsOf(cfg.originalWords)

\* hardClamp(), lines 193-199 and 203-204: one iteration of the do-while.
HardClampTrim ==
  /\ pc = "hardTrim"
  /\ LET currentText == DropLast(loc.currentText)
         s1 == SetContent(st, WithEllipsis(currentText), "self")
         r  == shouldClamp(s1, env, cfg)
     IN /\ st' = r.st
        /\ loc' = [loc EXCEPT !.currentText = currentText]
        /\ IF r.value
           THEN pc' = "hardTrim" /\ signals' = signals
           ELSE pc' = "hardEnd" /\ signals' = signals \o HardClampEvents
  /\ UNCHANGED <<cfg, env, pre>>

\* hardClamp() that empties the whole inline style instead of removing
\* min-height from it.
HardClampEndClearsStyle ==
  /\ pc = "hardEnd"
  /\ st' = SetStyle(st, [fontSize |-> 0, minHeight |-> 0], "self")
  /\ pc' = "rewatch"
  /\ UNCHANGED <<cfg, env, loc, signals, pre>>

\* hardClamp(), line 207: style.removeProperty('min-height').
HardClampEnd ==
  /\ pc = "hardEnd"
  /\ st' = SetStyle(st, [cssText(st) EXCEPT !.minHeight = 0], "self")
  /\ pc' = "rewatch"
  /\ UNCHANGED <<cfg, env, loc, signals, pre>>

\* clamp() without the re-watch of lines 174-176.
ClampEndNoRewatch ==
  /\ pc = "rewatch"
  /\ st' = IF loc.caller = "watch" THEN subscribe(st) ELSE st
  /\ pc' = "idle"
  /\ loc' = NoLocals
  /\ signals' = <<>>
  /\ pre' = Snapshot(st')
  /\ UNCHANGED <<cfg, env>>

\* clamp(), lines 174-179: watch(false) if previously watching; then, for
\* watch(true), the subscribing half of watch().
ClampEnd ==
  /\ pc = "rewatch"
  /\ LET s1 == IF loc.prev THEN watch(st, FALSE) ELSE st
     IN st' = IF loc.caller = "watch" THEN subscribe(s1) ELSE s1
  /\ pc' = "idle"
  /\ loc' = NoLocals
  /\ signals' = <<>>
  /\ pre' = Snapshot(st')
  /\ UNCHANGED <<cfg, env>>

\* ------------------------------------------------------------ public calls

\* controller.clamp()
ClampCall ==
  /\ Idle
  /\ BeginClamp(st, env, "clamp")
  /\ UNCHANGED <<cfg, env>>

\* controller.watch(doInitialClamp)
WatchCall(doInitialClamp) ==
  /\ Idle
  /\ IF doInitialClamp
     THEN BeginClamp(st, env, "watch")
     ELSE /\ st' = subscribe(st)
          /\ pre' = Snapshot(st')
          /\ UNCHANGED <<pc, loc, signals>>
  /\ UNCHANGED <<cfg, env>>

\* controller.unwatch()
UnwatchCall ==
  /\ Idle
  /\ st' = unwatch(st)
  /\ pre' = Snapshot(st')
  /\ UNCHANGED <<cfg, env, pc, loc, signals>>

\* controller.shouldClamp(), a measurement outside any pass
ShouldClampCall ==
  /\ Idle
  /\ st' = shouldClamp(st, env, cfg).st
  /\ pre' = Snapshot(st')
  /\ UNCHANGED <<cfg, env, pc, loc, signals>>

\* ---------------------------------------------------------------- the host

\* The MutationObserver delivers its queued records: updateHandler, clamp().
Deliver ==
  /\ Idle
  /\ st.records # {}
  /\ BeginClamp([st EXCEPT !.records = {}], env, "clamp")
  /\ UNCHANGED <<cfg, env>>

\* The viewport is resized; a registered listener runs updateHandler, clamp().
Resize(w) ==
  /\ Idle
  /\ w # env.width
  /\ env' = [env EXCEPT !.width = w]
  /\ IF st.resize > 0
     THEN BeginClamp(st, env', "clamp")
     ELSE UNCHANGED <<st, pc, loc, signals, pre>>
  /\ UNCHANGED cfg

\* A controller that splits originalWords again whenever the text is replaced.
ExternalTextResplits(t) ==
  /\ Idle
  /\ t # st.text
  /\ st' = SetContent(st, t, "external")
  /\ pre' = Snapshot(st')
  /\ cfg' = [cfg EXCEPT !.originalWords = Split(t)]
  /\ UNCHANGED <<env, pc, loc, signals>>

\* Another agent replaces the element's text.
ExternalText(t) ==
  /\ Idle
  /\ t # st.text
  /\ st' = SetContent(st, t, "external")
  /\ pre' = Snapshot(st')
  /\ UNCHANGED <<cfg, env, pc, loc, signals>>

\* An element that was not rendered (a hidden ancestor) starts being rendered.
Show ==
  /\ Idle
  /\ ~env.shown
  /\ env' = [env EXCEPT !.shown = TRUE]
  /\ UNCHANGED <<cfg, st, pc, loc, signals, pre>>

Next ==
  \/ ClampCall
  \/ \E d \in BOOLEAN : WatchCall(d)
  \/ UnwatchCall
  \/ ShouldClampCall
  \/ SoftClampStart
  \/ SoftClampLoop
  \/ HardClampStart
  \/ HardClampWords
  \/ HardClampTrim
  \/ HardClampEnd
  \/ ClampEnd
  \/ Deliver
  \/ \E w \in Widths : Resize(w)
  \/ \E t \in ExternalTexts : ExternalText(t)
  \/ Show

Spec == Init /\ [][Next]_vars

\* ------------------------------------------------------------------ claims

\* C1: hardClamp() terminates for every surface: once the character-trim loop
\* has rendered the empty string followed by the ellipsis, it does not start
\* another iteration, whatever the overflow test says.  (The do-while of lines
\* 193-197 has no such exit: with the string exhausted and shouldClamp() still
\* true the iteration repeats without changing anything, forever.)
C1_TrimLoopStopsWhenExhausted ==
  ~(pc = "hardTrim" /\ loc.currentText = <<>> /\ st.text = WithEllipsis(<<>>))

\* C2: a clamp() pass never causes a second pass: no write of the controller
\* (in a pass or in a measurement) is made while the MutationObserver is
\* observing, so none is ever queued for delivery, and clamp() is never
\* called again from the re-watch inside a pass or a measurement.
C2_NoSelfTriggeredPass ==
  /\ ~st.observedWrite
  /\ "self" \notin st.records
  /\ ~st.reentered

\* C2's case: a pass that started while watching has rewritten the element's
\* text and is about to re-watch.
C2_Witness ==
  pc = "rewatch" /\ pre.watching /\ loc.prev /\ st.text # pre.text

\* C3: when clamp() returns, the watching flag is what it was when clamp()
\* was called, on every path: the re-watch step of a pass, and the
\* zero-height exit, which is a single step from idle to idle.
C3_WatchingRestored ==
  [][ /\ (pc = "rewatch" /\ loc.caller = "clamp") => st'.watching = pre.watching
      /\ (Idle /\ pc' = "idle" /\ (ClampCall \/ Deliver \/ \E w \in Widths : Resize(w)))
           => st'.watching = st.watching ]_vars

\* C3's case: a pass started while watching went through the soft-to-hard
\* cascade, truncated, and is about to re-watch.
C3_Witness ==
  /\ pc = "rewatch" /\ pre.watching /\ ~st.watching
  /\ loc.caller = "clamp" /\ cfg.useSoftClamp /\ loc.trunc

\* C4: the mutation-observer subscription and the resize listener are present
\* exactly when the watching flag is true; in particular after unwatch()
\* (watching false) neither is left.
C4_SubscriptionsIffWatching ==
  /\ st.observing <=> st.watching
  /\ st.resize > 0 <=> st.watching

\* C4's case: the element was watched and unwatch() has run (here the one at
\* the start of a pass): nothing is subscribed.
C4_Witness ==
  pc # "idle" /\ pre.watching /\ pre.observing /\ pre.resize > 0
  /\ ~st.watching /\ ~st.observing /\ st.resize = 0

\* C5: watch() without an initial clamp on a watching controller changes
\* nothing and never leaves more than one resize listener; unwatch() on a
\* controller that is not watching changes nothing.
C5_WatchUnwatchIdempotent ==
  Idle =>
    /\ st.watching => subscribe(st) = st /\ st.resize = 1
    /\ ~st.watching => unwatch(st) = st /\ st.resize = 0
    /\ st.resize <= 1

\* C5's case: a watching controller with a notification still queued, where
\* a second watch() call could have re-subscribed or dropped it.
C5_Witness ==
  Idle /\ st.watching /\ st.observing /\ st.resize = 1 /\ st.records # {}

\* Whether text, under an inline min-height and an inline font size (0: none),
\* fits the line budget on the element as it is now rendered.
FitsAt(text, minHeight, fontSize) ==
  ~shouldClamp([st EXCEPT !.text = text, !.minHeight = minHeight,
                          !.fontSize = fontSize], env, cfg).value

\* C6 as stated: a pass that found content fitting at maxFontSize leaves the
\* content and the inline style as they were and dispatches nothing.
C6_Original ==
  (pc = "rewatch" /\ FitsAt(pre.text, pre.minHeight, cfg.maxFontSize))
    => /\ st.text = pre.text
       /\ st.fontSize = pre.fontSize
       /\ st.minHeight = pre.minHeight
       /\ signals = <<>>

\* The font size a pass tests first: soft clamp resets the inline font size,
\* hard clamp tests the element as it is.
FirstTestedFontSize == IF cfg.useSoftClamp THEN 0 ELSE pre.fontSize

\* C6, amended: a pass that finds the content fitting at the font size it
\* tests first leaves the content as it was and dispatches nothing; the only
\* change to the inline style is that soft clamp leaves the inline font size
\* reset and hard clamp leaves the inline min-height removed (so with neither
\* set nothing changes, in this call and in every repeated one).
C6_FittingPassChangesNothing ==
  (pc = "rewatch" /\ FitsAt(pre.text, pre.minHeight, FirstTestedFontSize))
    => /\ st.text = pre.text
       /\ signals = <<>>
       /\ cfg.useSoftClamp => (st.fontSize = 0 /\ st.minHeight = pre.minHeight)
       /\ ~cfg.useSoftClamp => (st.fontSize = pre.fontSize /\ st.minHeight = 0)

\* C6's case: a pass over non-empty content that fits is about to return.
C6_Witness ==
  /\ pc = "rewatch" /\ FitsAt(pre.text, pre.minHeight, FirstTestedFontSize)
  /\ pre.text # <<>> /\ pre.fontSize = 0 /\ pre.minHeight = 0
  /\ cssText(st) = [fontSize |-> 0, minHeight |-> 0] /\ st.text = pre.text

\* f is the largest font size of [minFontSize, maxFontSize] at which the
\* element's text fits.
LargestFitting(f) ==
  /\ f \in cfg.minFontSize..cfg.maxFontSize
  /\ FitsAt(st.text, st.minHeight, f)
  /\ \A g \in (f + 1)..cfg.maxFontSize : ~FitsAt(st.text, st.minHeight, g)

NoneFits ==
  \A g \in cfg.minFontSize..cfg.maxFontSize : ~FitsAt(st.text, st.minHeight, g)

\* C7: whenever soft clamp ends without invoking hard clamp, the font size in
\* effect is the largest one of [minFontSize, maxFontSize] at which the text
\* fits; hard clamp is invoked only when none of the range fits.  (softClamp()
\* tests first at the reset, style-sheet size, line 219, and returns when the
\* text fits there, without ever trying maxFontSize.)
C7_Original ==
  cfg.useSoftClamp =>
    /\ (pc = "rewatch" /\ ~loc.hard) => LargestFitting(computedFontSize(st, env))
    /\ pc = "hardClamp" => NoneFits

\* C8 as stated: after a soft clamp pass the font size in effect lies in
\* [minFontSize, maxFontSize].
C8_Original ==
  (pc = "rewatch" /\ cfg.useSoftClamp)
    => computedFontSize(st, env) \in cfg.minFontSize..cfg.maxFontSize

\* C8, amended: an inline font size written by soft clamp is never above
\* maxFontSize nor below minFontSize; when soft clamp finds no overflow after
\* the reset, or the range is empty, it leaves the inline font size empty (and
\* the style-sheet size is in effect, whatever the range).
C8_InlineFontSizeInRange ==
  /\ st.fontSize # 0 => st.fontSize \in cfg.minFontSize..cfg.maxFontSize
  /\ (pc = "rewatch" /\ cfg.useSoftClamp /\ ~loc.done)
       => st.fontSize = (IF loc.hard /\ cfg.minFontSize <= cfg.maxFontSize
                         THEN cfg.minFontSize ELSE 0)

\* C8's case: the search ran down to a minFontSize above 1px without success,
\* hard clamp truncated, and the pass is about to return.
C8_Witness ==
  /\ pc = "rewatch" /\ cfg.useSoftClamp /\ loc.hard /\ loc.trunc
  /\ cfg.minFontSize > 1 /\ cfg.minFontSize <= cfg.maxFontSize
  /\ st.fontSize = cfg.minFontSize

EndsWithEllipsis(t) == Len(t) > 0 /\ t[Len(t)] = "hellip"

\* The text without the ellipsis marker that may end it.
BeforeEllipsis(t) == IF EndsWithEllipsis(t) THEN DropLast(t) ELSE t

\* C9 as stated: what a truncating hard clamp leaves is a strict prefix of
\* the original words joined by single spaces, optionally followed by one
\* ellipsis marker.
C9_Original ==
  (pc \in {"hardEnd", "rewatch"} /\ loc.trunc)
    => /\ IsPrefix(BeforeEllipsis(st.text), Join(cfg.originalWords))
       /\ Len(BeforeEllipsis(st.text)) < Len(Join(cfg.originalWords))

\* C9, amended: what a truncating hard clamp leaves is a prefix of the
\* original words joined by single spaces, optionally followed by one
\* ellipsis marker; the prefix is strict unless that joined text is empty.
C9_TruncationIsOriginalPrefix ==
  (pc \in {"hardEnd", "rewatch"} /\ loc.trunc)
    => /\ IsPrefix(BeforeEllipsis(st.text), Join(cfg.originalWords))
       /\ Len(Join(cfg.originalWords)) > 0
            => Len(BeforeEllipsis(st.text)) < Len(Join(cfg.originalWords))

\* C9's case: the content had been replaced by another text, and hard clamp
\* left a non-empty piece of the original text followed by the ellipsis.
C9_Witness ==
  /\ pc = "rewatch" /\ loc.trunc /\ pre.text \in ExternalTexts
  /\ EndsWithEllipsis(st.text) /\ Len(st.text) > 1

Count(seq, x) == Cardinality({ k \in 1..Len(seq) : seq[k] = x })

NoSignals == <<>>

SoftSucceeded == <<"lineclamp.softClamp", "lineclamp.clamp">>

Cascaded == <<"lineclamp.softClamp", "lineclamp.hardClamp", "lineclamp.clamp">>

HardOnly == <<"lineclamp.hardClamp", "lineclamp.clamp">>

\* C11: the signals of a pass that returns are none (the content fitted at the
\* first test), softClamp then clamp (the search succeeded, hard clamp not
\* invoked), softClamp then hardClamp then clamp (the search failed and
\* cascaded), or hardClamp then clamp (useSoftClamp false); while the pass
\* runs the signals are a prefix of one of these, so none fires twice, and
\* after a failed search lineclamp.clamp waits for hard clamp.
C11_SignalSequences ==
  /\ \E q \in {NoSignals, SoftSucceeded, Cascaded, HardOnly} : IsPrefix(signals, q)
  /\ \A x \in {"lineclamp.softClamp", "lineclamp.hardClamp", "lineclamp.clamp"} :
       Count(signals, x) <= 1
  /\ pc = "rewatch" =>
       /\ signals = NoSignals <=> (~loc.done /\ ~loc.trunc)
       /\ signals = SoftSucceeded <=> (cfg.useSoftClamp /\ loc.done /\ ~loc.hard)
       /\ signals = Cascaded <=> (cfg.useSoftClamp /\ ~loc.done /\ loc.hard)
       /\ signals = HardOnly <=> (~cfg.useSoftClamp /\ loc.trunc)
  /\ (cfg.useSoftClamp /\ pc \in {"hardClamp", "hardWords", "hardTrim"})
       => signals = <<"lineclamp.softClamp">>

\* C11's case: a pass whose font-size search succeeded below maxFontSize is
\* about to return.
C11_Witness ==
  /\ pc = "rewatch" /\ signals = SoftSucceeded
  /\ loc.done /\ st.fontSize < cfg.maxFontSize

\* C12: clamp() on an element whose rendered height is zero changes nothing:
\* the content, the inline style, the watching flag, the subscriptions and
\* the observer's queue (which a measurement would empty) stay as they are,
\* no pass begins and nothing is dispatched.
C12_ZeroHeightClampIsNoOp ==
  [][ (Idle /\ offsetHeight(st, env) = 0 /\ ClampCall)
        => (st' = st /\ pc' = "idle" /\ loc' = NoLocals /\ signals' = <<>>) ]_vars

\* C12's case: an element that is not rendered, holding text, watched, with a
\* notification queued: the state clamp() is called in and must leave alone.
C12_Witness ==
  /\ Idle /\ offsetHeight(st, env) = 0
  /\ st.text # <<>> /\ st.watching /\ st.records # {}

\* C13: with useSoftClamp false the inline font size is, at every step of a
\* pass and when the pass returns, what it was when the pass began, whether
\* or not hard clamp truncated.
C13_HardClampKeepsFontSize ==
  ~cfg.useSoftClamp => st.fontSize = pre.fontSize

\* C13's case: an element carrying an inline font size was truncated by a
\* hard clamp pass that is about to return.
C13_Witness ==
  /\ pc = "rewatch" /\ ~cfg.useSoftClamp /\ loc.trunc
  /\ pre.fontSize # 0 /\ st.fontSize = pre.fontSize /\ st.text # pre.text

\* The element the constructor returns with is the element it was given:
\* one of the construction-time texts and inline styles, nothing subscribed.
ConstructorLeftNoResidue ==
  /\ st.text \in Texts
  /\ st.fontSize \in InlineFontSizes /\ st.minHeight \in MinHeights
  /\ ~st.watching /\ ~st.observing /\ st.resize = 0

\* C14: a measurement leaves no residue: after the constructor (which measures
\* when basisLineHeight is not supplied), after a shouldClamp() call and after
\* the first measurement of a hard clamp pass, the element's content and
\* inline style, the watching flag and the two subscriptions are what they
\* were before.
C14_MeasurementLeavesNoResidue ==
  /\ ConstructorLeftNoResidue
  /\ [][ (ShouldClampCall \/ HardClampStart) => Snapshot(st') = Snapshot(st) ]_vars

\* C14's case: the first measurement of a pass has run (and found overflow) on
\* an element carrying an inline font size and an inline min-height.
C14_Witness ==
  /\ pc = "hardWords" /\ loc.i = 0
  /\ st.text = pre.text /\ st.text # <<>>
  /\ st.fontSize = pre.fontSize /\ st.fontSize # 0
  /\ st.minHeight = pre.minHeight /\ st.minHeight # 0

\* The inline style in force while the measurement callback reads heights.
StyleWhileMeasuring(s) == ApplyDecls(cssText(s), appendedCss)

\* C15: while the callback measures, the inline min-height is overridden by 0,
\* so that the innerHeight and the lineHeight a measurement returns are those
\* of the element without its min-height.  (Line 268 appends the array of
\* property names, not the declarations built in lines 261-263: nothing is
\* overridden.)
C15_MeasurementZeroesBoxModel ==
  /\ StyleWhileMeasuring(st).minHeight = 0
  /\ LET d     == textDimensions(st, env, cfg)
         bare  == [st EXCEPT !.minHeight = 0]
     IN /\ d.innerHeight = offsetHeight(bare, env)
        /\ d.lineHeight.num =
             offsetHeight([bare EXCEPT !.text = CalibrationHtml(cfg.maxLines)], env)

\* The prefix of the original words of length j, joined by single spaces.
WordPrefix(j) == Join(Slice(cfg.originalWords, j))

\* The lengths 0..N of word prefixes that overflow on the element as it is
\* rendered during the pass.
OverflowingPrefixes ==
  { j \in 0..Len(cfg.originalWords) : ~FitsAt(WordPrefix(j), st.minHeight, st.fontSize) }

\* C16: when hard clamp's guard was true and no word prefix of length 0..N
\* overflows, the character phase has not run and the element holds the full
\* original text, without ellipsis.  (The loop of line 187 runs while
\* i < originalWords.length: the prefix of length N is never rendered.)
C16_FullTextRemains ==
  (pc = "hardEnd" /\ loc.trunc /\ OverflowingPrefixes = {})
    => st.text = Join(cfg.originalWords)

\* The shortest overflowing word prefix, when there is one.
FirstOverflowing ==
  CHOOSE j \in OverflowingPrefixes : \A k \in OverflowingPrefixes : j <= k

\* Q is the longest proper character prefix of P such that Q followed by the
\* ellipsis fits.
LongestFittingCut(Q, P) ==
  /\ IsPrefix(Q, P) /\ Len(Q) < Len(P)
  /\ FitsAt(WithEllipsis(Q), st.minHeight, st.fontSize)
  /\ \A n \in (Len(Q) + 1)..(Len(P) - 1) :
       ~FitsAt(WithEllipsis(SubSeq(P, 1, n)), st.minHeight, st.fontSize)

\* C17: when hard clamp's guard was true and some word prefix (of length
\* 0..N) overflows, what hard clamp leaves is Q followed by the ellipsis, Q
\* the longest proper character prefix of the shortest overflowing word prefix
\* for which Q and the ellipsis fit.  (The word prefix of length N is never
\* tested, see C16: when it is the only one that overflows, no ellipsis is
\* written and the last word is dropped whole.)
C17_CutAtFirstOverflowingPrefix ==
  (pc = "hardEnd" /\ loc.trunc /\ OverflowingPrefixes # {})
    => /\ EndsWithEllipsis(st.text)
       /\ LongestFittingCut(BeforeEllipsis(st.text), WordPrefix(FirstOverflowing))

EmptyRange == cfg.minFontSize > cfg.maxFontSize

\* C18: with minFontSize > maxFontSize soft clamp writes no pixel font size
\* (the inline font size stays reset to empty throughout the pass), and when
\* the content overflows it dispatches lineclamp.softClamp and invokes hard
\* clamp.
C18_EmptyRangeDefersToHardClamp ==
  (cfg.useSoftClamp /\ EmptyRange) =>
    /\ pc \notin {"idle", "softClamp"} => st.fontSize = 0
    /\ pc = "softLoop" => (loc.i = cfg.maxFontSize /\ signals = <<>>)
    /\ (pc = "rewatch" /\ ~FitsAt(pre.text, pre.minHeight, 0))
         => (loc.hard /\ signals # <<>> /\ signals[1] = "lineclamp.softClamp")

\* C18's case: with an empty range and overflowing content, the pass went to
\* hard clamp, truncated, and is about to return.
C18_Witness ==
  /\ pc = "rewatch" /\ cfg.useSoftClamp /\ EmptyRange
  /\ loc.hard /\ loc.trunc /\ st.fontSize = 0 /\ st.text # pre.text

C20_ExternalChangeNotDropped ==
  [][ ("external" \in st.records /\ ~UnwatchCall)
        => ("external" \in st'.records \/ Deliver \/ pc' # "idle") ]_vars

====
